---- MODULE Spec2Model ----
(***************************************************************************)
(* Model of baxter_control/src/baxter_to_csv.cpp (class BaxterToCSV).      *)
(*                                                                         *)
(* One periodic sampler (update), three subscriber callbacks that overwrite *)
(* a latest-message buffer, a freshness check (stateExpired) and a CSV     *)
(* writer (writeToFile).  All callbacks run on one spinner thread, so each *)
(* handler is one atomic action.                                           *)
(*                                                                         *)
(* Time is counted in timer periods.  A message is identified by the       *)
(* sequence number of its header; the contents of its arrays are symbolic  *)
(* (only the array sizes and the identity of the message matter).          *)
(* An out-of-range operator[] read is undefined behaviour: the writer      *)
(* either emits an indeterminate value or the process dies at that read.   *)
(***************************************************************************)
EXTENDS Integers, Sequences, FiniteSets, TLC

\* ------------------------------------------------------------------ bounds
MaxTime   == 3      \* the clock stops advancing here
MaxMsgs   == 2      \* messages delivered over a run (state and command)
MaxEpoch  == 2      \* calls of startRecording over a run
MaxJoints == 2      \* largest array size carried by a message

\* ------------------------------------------------------- program constants
\* ros::Duration(1.0/RECORD_RATE_HZ): one timer period is the unit of time
Period == 1
\* STATE_EXPIRED_TIMEOUT, in timer periods
STATE_EXPIRED_TIMEOUT == 1

\* the names startRecording is called with
FileNames == {"a.csv"}

VARIABLES
  position_cmd_mode_,     \* constructor argument
  state_msg_,             \* latest sensor_msgs::JointState
  state_msg_timestamp_,   \* ros::Time::now() at its receipt
  cmd_position_msg_,      \* latest baxter_msgs::JointPositions
  cmd_velocity_msg_,      \* latest baxter_msgs::JointVelocities
  joint_states_,          \* std::vector of sampled states
  joint_commands_,        \* std::vector, cleared but never filled
  cmd_position_msgs_,     \* std::vector of sampled position commands
  cmd_velocity_msgs_,     \* std::vector of sampled velocity commands
  file_name_,
  timer_active,           \* non_realtime_loop_ is started
  timer_next,             \* next expected expiry of non_realtime_loop_
  now,                    \* ros::Time::now()
  files,                  \* the file system: name -> content
  crashed,                \* the process died in an out-of-range read
  \* ---- history variables (not program state)
  nmsg,                   \* messages delivered so far
  epoch,                  \* calls of startRecording so far
  ticks,                  \* calls of update since the last startRecording
  lost,                   \* seq of messages overwritten before any tick saw them
  seen,                   \* has a tick copied the latest state / command
  delivered,              \* the last message handed to each callback
  last_op,                \* the handler that ran last, and what it did
  g_stop                  \* what the last start dropped; buffers and file
                          \* at the first stop since

vars == << position_cmd_mode_, state_msg_, state_msg_timestamp_,
           cmd_position_msg_, cmd_velocity_msg_, joint_states_,
           joint_commands_, cmd_position_msgs_, cmd_velocity_msgs_,
           file_name_, timer_active, timer_next, now, files, crashed,
           nmsg, epoch, ticks, lost, seen, delivered, last_op, g_stop >>

\* ---------------------------------------------------------------- messages
\* sensor_msgs::JointState: name[], position[], velocity[], effort[] are
\* independent arrays; velocity and effort may be left empty, and nothing
\* in the subscriber checks that name[] is as long as position[].
StateShapes ==
  { [nn |-> n, np |-> n, nv |-> n, ne |-> n] : n \in {1, MaxJoints} } \cup
  { [nn |-> MaxJoints, np |-> MaxJoints, nv |-> 0, ne |-> 0],
    [nn |-> 0, np |-> 1, nv |-> 1, ne |-> 1] }

\* sizes of angles[] / velocities[] of a command message
CmdSizes == {0, 1, MaxJoints}

StateMsg(seq, stamp, sh) ==
  [seq |-> seq, stamp |-> stamp,
   nn |-> sh.nn, np |-> sh.np, nv |-> sh.nv, ne |-> sh.ne]

\* baxter_msgs::JointPositions / JointVelocities: n is the size of
\* angles[] / velocities[]
CmdMsg(seq, n) == [seq |-> seq, n |-> n]

\* a default-constructed command message: empty arrays
DefaultCmd == CmdMsg(0, 0)

NoFile == [exists |-> FALSE, header |-> <<>>, rows |-> <<>>, prov |-> <<>>]

\* ------------------------------------------------------------- writeToFile
\* One comma-terminated field of the output.  k says which array it was read
\* from, s the message it was read from, j the index.
Tok(k, s, j) == [k |-> k, s |-> s, j |-> j]

\* what an out-of-range operator[] read yields when the process survives it
Garbage == Tok("garbage", 0, 0)

\* the command sample that row i reads; cmd_position_msgs_[i] or
\* cmd_velocity_msgs_[i]
CmdSamples(mode, cp, cv) == IF mode THEN cp ELSE cv

\* header: "timestamp," then for each j < joint_states_[0].position.size()
\* name[j]_pos, name[j]_vel, name[j]_eff, name[j]_pos_cmd | name[j]_vel_cmd
HeaderName(m, j, suffix) ==
  IF j <= m.nn THEN Tok(suffix, m.seq, j) ELSE Garbage

RECURSIVE HeaderJoints(_, _, _)
HeaderJoints(m, mode, j) ==
  IF j > m.np THEN << >>
  ELSE << HeaderName(m, j, "_pos"), HeaderName(m, j, "_vel"),
          HeaderName(m, j, "_eff"),
          HeaderName(m, j, IF mode THEN "_pos_cmd" ELSE "_vel_cmd") >>
       \o HeaderJoints(m, mode, j + 1)

HeaderLine(js, mode) ==
  << Tok("timestamp", 0, 0) >> \o HeaderJoints(js[1].msg, mode, 1)

\* the reads of the header loop that are out of range
HeaderOutOfRange(js) == js[1].msg.np > js[1].msg.nn

\* data row i: stamp - start_time, then for each j < position.size()
\* position[j], velocity[j], effort[j], command[j]
CmdField(cmds, i, j) ==
  IF i <= Len(cmds) /\ j <= cmds[i].n THEN Tok("cmd", cmds[i].seq, j)
  ELSE Garbage

RECURSIVE RowJoints(_, _, _, _)
RowJoints(m, cmds, i, j) ==
  IF j > m.np THEN << >>
  ELSE << Tok("position", m.seq, j),
          IF j <= m.nv THEN Tok("velocity", m.seq, j) ELSE Garbage,
          IF j <= m.ne THEN Tok("effort", m.seq, j) ELSE Garbage,
          CmdField(cmds, i, j) >>
       \o RowJoints(m, cmds, i, j + 1)

RowLine(js, cmds, i) ==
  << Tok("time", 0, js[i].msg.stamp - js[1].msg.stamp) >>
  \o RowJoints(js[i].msg, cmds, i, 1)

\* the reads of row i that are out of range
RowOutOfRange(js, cmds, i) ==
  \E j \in 1..js[i].msg.np :
     \/ j > js[i].msg.nv
     \/ j > js[i].msg.ne
     \/ i > Len(cmds)
     \/ j > cmds[i].n

\* where each row came from: the recording and the tick that appended it
Prov(js, n) == [i \in 1..n |-> [epoch |-> js[i].epoch, tick |-> js[i].tick]]

FileUpTo(js, cmds, mode, n) ==
  [exists |-> TRUE,
   header |-> HeaderLine(js, mode),
   rows   |-> [i \in 1..n |-> RowLine(js, cmds, i)],
   prov   |-> Prov(js, n)]

\* ofstream::open truncates; nothing reaches the file before the first endl
EmptyFile == [exists |-> TRUE, header |-> <<>>, rows |-> <<>>, prov |-> <<>>]

\* The outcomes of writeToFile(file_name): ret is the return value, content
\* the file it leaves (NoFile: the file was not opened), crashed whether the
\* process died in an out-of-range read.  std::endl flushes every line, so a
\* process that dies in row i leaves the header and the rows before i.
writeToFile(js, cp, cv, mode) ==
  LET cmds == CmdSamples(mode, cp, cv)
      bad  == { i \in 1..Len(js) : RowOutOfRange(js, cmds, i) }
      full == [ret |-> TRUE, wrote |-> TRUE, crashed |-> FALSE,
               content |-> FileUpTo(js, cmds, mode, Len(js))]
  IN  IF Len(js) = 0
        THEN { [ret |-> FALSE, wrote |-> FALSE, crashed |-> FALSE,
                content |-> NoFile] }
      ELSE IF HeaderOutOfRange(js)
        THEN { full,
               [ret |-> FALSE, wrote |-> TRUE, crashed |-> TRUE,
                content |-> EmptyFile] }
      ELSE IF bad # {}
        THEN LET first == CHOOSE i \in bad : \A k \in bad : i <= k
             IN  { full,
                   [ret |-> FALSE, wrote |-> TRUE, crashed |-> TRUE,
                    content |-> FileUpTo(js, cmds, mode, first - 1)] }
      ELSE { full }

\* ------------------------------------------------------------------- state
Op(op, wrote, aborted) == [op |-> op, wrote |-> wrote, aborted |-> aborted]

\* dropped: the samples the last startRecording discarded
NoStop ==
  [n |-> 0, js |-> <<>>, cp |-> <<>>, cv |-> <<>>, content |-> NoFile,
   dropped |-> 0]

\* the first stop since startRecording keeps what it saw and what it wrote
NoteStop(g, js, cp, cv, o) ==
  IF g.n = 0
    THEN [g EXCEPT !.n = 1, !.js = js, !.cp = cp, !.cv = cv,
                   !.content = o.content]
    ELSE [g EXCEPT !.n = 2]

\* the file system after writeToFile(file_name_) with outcome o
Written(o) ==
  IF o.wrote THEN [files EXCEPT ![file_name_] = o.content] ELSE files

\* The constructor: subscribe, then spin until the first state message is in
\* (state_msg_timestamp_ is no longer zero).  No command need have arrived.
Init ==
  /\ position_cmd_mode_ \in BOOLEAN
  /\ now = 1
  /\ \E sh \in StateShapes : state_msg_ = StateMsg(1, 1, sh)
  /\ state_msg_timestamp_ = 1
  /\ cmd_position_msg_ = DefaultCmd
  /\ cmd_velocity_msg_ = DefaultCmd
  /\ joint_states_ = << >>
  /\ joint_commands_ = << >>
  /\ cmd_position_msgs_ = << >>
  /\ cmd_velocity_msgs_ = << >>
  /\ file_name_ = ""
  /\ timer_active = FALSE
  /\ timer_next = 0
  /\ files = [f \in FileNames \cup {""} |-> NoFile]
  /\ crashed = FALSE
  /\ nmsg = 1
  /\ epoch = 0
  /\ ticks = 0
  /\ lost = {}
  /\ seen = [state |-> FALSE, cmd |-> TRUE]
  /\ delivered = [state |-> state_msg_, cmd |-> DefaultCmd]
  /\ last_op = Op("init", FALSE, FALSE)
  /\ g_stop = NoStop

\* ros::Time::now() moves on
Advance ==
  /\ ~crashed
  /\ now < MaxTime
  /\ now' = now + 1
  /\ last_op' = Op("advance", FALSE, FALSE)
  /\ UNCHANGED << position_cmd_mode_, state_msg_, state_msg_timestamp_,
                  cmd_position_msg_, cmd_velocity_msg_, joint_states_,
                  joint_commands_, cmd_position_msgs_, cmd_velocity_msgs_,
                  file_name_, timer_active, timer_next, files, crashed,
                  nmsg, epoch, ticks, lost, seen, delivered, g_stop >>

\* startRecording without the reset of the data collections
startRecording_NoClear(file_name) ==
  /\ ~crashed
  /\ epoch < MaxEpoch
  /\ file_name_' = file_name
  /\ timer_active' = TRUE
  /\ timer_next' = now + Period
  /\ epoch' = epoch + 1
  /\ ticks' = 0
  /\ g_stop' = NoStop
  /\ last_op' = Op("start", FALSE, FALSE)
  /\ UNCHANGED << position_cmd_mode_, state_msg_, state_msg_timestamp_,
                  cmd_position_msg_, cmd_velocity_msg_, joint_states_,
                  joint_commands_, cmd_position_msgs_, cmd_velocity_msgs_,
                  now, files, crashed, nmsg, lost, seen, delivered >>

startRecording(file_name) ==
  /\ ~crashed
  /\ epoch < MaxEpoch
  /\ file_name_' = file_name
  /\ joint_states_' = << >>
  /\ joint_commands_' = << >>
  /\ cmd_position_msgs_' = << >>
  /\ cmd_velocity_msgs_' = << >>
  /\ timer_active' = TRUE
  /\ timer_next' = now + Period
  /\ epoch' = epoch + 1
  /\ ticks' = 0
  /\ g_stop' = [NoStop EXCEPT !.dropped = Len(joint_states_)]
  /\ last_op' = Op("start", FALSE, FALSE)
  /\ UNCHANGED << position_cmd_mode_, state_msg_, state_msg_timestamp_,
                  cmd_position_msg_, cmd_velocity_msg_, now, files, crashed,
                  nmsg, lost, seen, delivered >>

stopRecording ==
  /\ ~crashed
  /\ timer_active' = FALSE
  /\ \E o \in writeToFile(joint_states_, cmd_position_msgs_,
                          cmd_velocity_msgs_, position_cmd_mode_) :
        /\ files' = Written(o)
        /\ crashed' = o.crashed
        /\ g_stop' = NoteStop(g_stop, joint_states_, cmd_position_msgs_,
                              cmd_velocity_msgs_, o)
        /\ last_op' = Op("stop", o.wrote, FALSE)
  /\ UNCHANGED << position_cmd_mode_, state_msg_, state_msg_timestamp_,
                  cmd_position_msg_, cmd_velocity_msg_, joint_states_,
                  joint_commands_, cmd_position_msgs_, cmd_velocity_msgs_,
                  file_name_, timer_next, now, nmsg, epoch, ticks, lost,
                  seen, delivered >>

stateExpired == now > state_msg_timestamp_ + STATE_EXPIRED_TIMEOUT

\* the sample update() appends: a copy of the latest message (recording and
\* tick are history, kept to tell where a row of the file came from)
Sample(m) == [msg |-> m, epoch |-> epoch, tick |-> ticks + 1]

\* the timer's next expected expiry (roscpp: a late timer is re-armed from now)
NextExpected ==
  IF timer_next + Period <= now THEN now + Period ELSE timer_next + Period

\* update() that appends the command to cmd_position_msgs_ in either mode
Record_WrongBuffer ==
  /\ joint_states_' = Append(joint_states_, Sample(state_msg_))
  /\ cmd_position_msgs_' = Append(cmd_position_msgs_, cmd_position_msg_)
  /\ UNCHANGED cmd_velocity_msgs_
  /\ seen' = [state |-> TRUE, cmd |-> TRUE]

\* the part of update() after the freshness check
Record ==
  /\ joint_states_' = Append(joint_states_, Sample(state_msg_))
  /\ IF position_cmd_mode_
       THEN /\ cmd_position_msgs_' = Append(cmd_position_msgs_, cmd_position_msg_)
            /\ UNCHANGED cmd_velocity_msgs_
       ELSE /\ cmd_velocity_msgs_' = Append(cmd_velocity_msgs_, cmd_velocity_msg_)
            /\ UNCHANGED cmd_position_msgs_
  /\ seen' = [state |-> TRUE, cmd |-> TRUE]

\* the timer callback
update ==
  /\ ~crashed
  /\ timer_active
  /\ now >= timer_next
  /\ ticks' = ticks + 1
  /\ timer_next' = NextExpected
  /\ IF stateExpired
       THEN \E o \in writeToFile(joint_states_, cmd_position_msgs_,
                                 cmd_velocity_msgs_, position_cmd_mode_) :
              /\ timer_active' = FALSE
              /\ files' = Written(o)
              /\ crashed' = o.crashed
              /\ g_stop' = NoteStop(g_stop, joint_states_, cmd_position_msgs_,
                                    cmd_velocity_msgs_, o)
              /\ last_op' = Op("update", o.wrote, TRUE)
              /\ IF o.crashed
                   THEN UNCHANGED << joint_states_, cmd_position_msgs_,
                                     cmd_velocity_msgs_, seen >>
                   ELSE Record
       ELSE /\ Record
            /\ last_op' = Op("update", FALSE, FALSE)
            /\ UNCHANGED << timer_active, files, crashed, g_stop >>
  /\ UNCHANGED << position_cmd_mode_, state_msg_, state_msg_timestamp_,
                  cmd_position_msg_, cmd_velocity_msg_, joint_commands_,
                  file_name_, now, nmsg, epoch, lost, delivered >>

\* a message overwritten before any tick copied it
Overwrite(old_seq, was_seen) ==
  IF was_seen THEN lost ELSE lost \cup {old_seq}

\* stateCallback that samples on arrival instead of buffering
stateCallback_Push(msg) ==
  /\ ~crashed
  /\ nmsg < MaxMsgs
  /\ state_msg_' = msg
  /\ state_msg_timestamp_' = now
  /\ joint_states_' = Append(joint_states_, Sample(state_msg_))
  /\ nmsg' = nmsg + 1
  /\ lost' = Overwrite(state_msg_.seq, seen.state)
  /\ seen' = [seen EXCEPT !.state = FALSE]
  /\ delivered' = [delivered EXCEPT !.state = msg]
  /\ last_op' = Op("stateCallback", FALSE, FALSE)
  /\ UNCHANGED << position_cmd_mode_, cmd_position_msg_, cmd_velocity_msg_,
                  joint_commands_, cmd_position_msgs_,
                  cmd_velocity_msgs_, file_name_, timer_active, timer_next,
                  now, files, crashed, epoch, ticks, g_stop >>

stateCallback(msg) ==
  /\ ~crashed
  /\ nmsg < MaxMsgs
  /\ state_msg_' = msg
  /\ state_msg_timestamp_' = now
  /\ nmsg' = nmsg + 1
  /\ lost' = Overwrite(state_msg_.seq, seen.state)
  /\ seen' = [seen EXCEPT !.state = FALSE]
  /\ delivered' = [delivered EXCEPT !.state = msg]
  /\ last_op' = Op("stateCallback", FALSE, FALSE)
  /\ UNCHANGED << position_cmd_mode_, cmd_position_msg_, cmd_velocity_msg_,
                  joint_states_, joint_commands_, cmd_position_msgs_,
                  cmd_velocity_msgs_, file_name_, timer_active, timer_next,
                  now, files, crashed, epoch, ticks, g_stop >>

\* subscribed only when position_cmd_mode_
cmdPositionCallback(msg) ==
  /\ ~crashed
  /\ position_cmd_mode_
  /\ nmsg < MaxMsgs
  /\ cmd_position_msg_' = msg
  /\ nmsg' = nmsg + 1
  /\ lost' = Overwrite(cmd_position_msg_.seq, seen.cmd)
  /\ seen' = [seen EXCEPT !.cmd = FALSE]
  /\ delivered' = [delivered EXCEPT !.cmd = msg]
  /\ last_op' = Op("cmdPositionCallback", FALSE, FALSE)
  /\ UNCHANGED << position_cmd_mode_, state_msg_, state_msg_timestamp_,
                  cmd_velocity_msg_, joint_states_, joint_commands_,
                  cmd_position_msgs_, cmd_velocity_msgs_, file_name_,
                  timer_active, timer_next, now, files, crashed, epoch,
                  ticks, g_stop >>

\* subscribed only when not position_cmd_mode_
cmdVelocityCallback(msg) ==
  /\ ~crashed
  /\ ~position_cmd_mode_
  /\ nmsg < MaxMsgs
  /\ cmd_velocity_msg_' = msg
  /\ nmsg' = nmsg + 1
  /\ lost' = Overwrite(cmd_velocity_msg_.seq, seen.cmd)
  /\ seen' = [seen EXCEPT !.cmd = FALSE]
  /\ delivered' = [delivered EXCEPT !.cmd = msg]
  /\ last_op' = Op("cmdVelocityCallback", FALSE, FALSE)
  /\ UNCHANGED << position_cmd_mode_, state_msg_, state_msg_timestamp_,
                  cmd_position_msg_, joint_states_, joint_commands_,
                  cmd_position_msgs_, cmd_velocity_msgs_, file_name_,
                  timer_active, timer_next, now, files, crashed, epoch,
                  ticks, g_stop >>

\* messages the middleware can deliver now
StateInputs == { StateMsg(nmsg + 1, now, sh) : sh \in StateShapes }
CmdInputs   == { CmdMsg(nmsg + 1, n) : n \in CmdSizes }

Next ==
  \/ Advance
  \/ \E f \in FileNames : startRecording(f)
  \/ stopRecording
  \/ update
  \/ \E m \in StateInputs : stateCallback(m)
  \/ \E m \in CmdInputs : cmdPositionCallback(m)
  \/ \E m \in CmdInputs : cmdVelocityCallback(m)

Spec == Init /\ [][Next]_vars

\* ------------------------------------------------------------------ claims
Buffers == << joint_states_, cmd_position_msgs_, cmd_velocity_msgs_ >>

\* the command samples of the configured mode
ModeSamples ==
  CmdSamples(position_cmd_mode_, cmd_position_msgs_, cmd_velocity_msgs_)

\* the file stopRecording() has just written
Out == files[file_name_]

Callbacks == {"stateCallback", "cmdPositionCallback", "cmdVelocityCallback"}

\* C1: a file written by stopRecording() (called by the user or from the
\* stale-input abort) has exactly one data row per timer tick that ran since
\* the most recent startRecording(), row i being the sample of the i-th tick.
C1_OneRowPerTick ==
  last_op.wrote =>
    /\ Len(Out.rows) = ticks
    /\ \A i \in 1..Len(Out.rows) :
          Out.prov[i] = [epoch |-> epoch, tick |-> i]

\* C2: a tick that finds the state stale stops the timer, writes the samples
\* collected so far and appends no sample of its own.
C2_StaleTickRecordsNothing ==
  [][ (stateExpired /\ last_op'.op = "update" /\ ~crashed') =>
        /\ ~timer_active'
        /\ last_op'.aborted
        /\ (joint_states_ # << >> =>
              /\ last_op'.wrote
              /\ Len(files'[file_name_].rows) = Len(joint_states_))
        /\ Buffers' = Buffers ]_vars

\* C3: right after startRecording() the four collections are empty, and no
\* file written by stopRecording() holds a row whose sample was appended
\* before the most recent startRecording().
C3_StartResets ==
  /\ last_op.op = "start" =>
       /\ joint_states_ = << >>
       /\ joint_commands_ = << >>
       /\ cmd_position_msgs_ = << >>
       /\ cmd_velocity_msgs_ = << >>
  /\ last_op.wrote =>
       \A i \in 1..Len(Out.prov) : Out.prov[i].epoch = epoch

\* C3 witness: a recording that started by discarding the samples of the one
\* before has sampled and written its own rows.
C3_Witness ==
  /\ last_op.op = "stop" /\ last_op.wrote
  /\ g_stop.dropped >= 1
  /\ Len(Out.rows) >= 1

C6_SameLength ==
  IF position_cmd_mode_
    THEN Len(joint_states_) = Len(cmd_position_msgs_) /\ cmd_velocity_msgs_ = << >>
    ELSE Len(joint_states_) = Len(cmd_velocity_msgs_) /\ cmd_position_msgs_ = << >>

\* C6 witness: velocity mode, two samples, the second from an aborting tick
C6_Witness ==
  /\ ~position_cmd_mode_
  /\ Len(joint_states_) >= 2
  /\ last_op.op = "update" /\ last_op.aborted

\* C5: every data row of a written file has as many fields as the header:
\* one timestamp and four per joint of the first recorded state.
C5_Table ==
  (last_op.wrote /\ ~crashed) =>
    /\ Len(Out.header) = 1 + 4 * joint_states_[1].msg.np
    /\ \A i \in 1..Len(Out.rows) : Len(Out.rows[i]) = Len(Out.header)

\* C7: every indexed read of writeToFile() is in range.
C7_ReadsInRange ==
  (last_op.op = "stop" /\ last_op.wrote) =>
    /\ ~HeaderOutOfRange(joint_states_)
    /\ \A i \in 1..Len(joint_states_) :
          ~RowOutOfRange(joint_states_, ModeSamples, i)

\* C8: from the stop of a recording to the next startRecording() the sample
\* buffers stay as they were, and a second stopRecording() writes the rows
\* the first one wrote.
C8_StoppedIsFrozen ==
  /\ g_stop.n >= 1 =>
       /\ joint_states_ = g_stop.js
       /\ cmd_position_msgs_ = g_stop.cp
       /\ cmd_velocity_msgs_ = g_stop.cv
  /\ (g_stop.n = 2 /\ last_op.op = "stop" /\ ~crashed) =>
       /\ last_op.wrote = g_stop.content.exists
       /\ last_op.wrote => Out.rows = g_stop.content.rows

====
